---- MODULE Spec2Model ----
(***************************************************************************)
(* Model of apps/predbat/rate_store.py: RateStore, the persistent store of *)
(* the import and export rate tables, one JSON document per calendar date, *)
(* with past slots frozen on every write.                                  *)
(*                                                                         *)
(* RateStore inherits load, save and cleanup from PersistentStore, whose   *)
(* source is not part of src/; these three are modelled from spec.md       *)
(* sections 2, 6 and 7 (the Generic Store).                                *)
(***************************************************************************)
EXTENDS Integers, Sequences, FiniteSets, TLC

VARIABLES files, backups, now, ret, written, writers, given

vars == <<files, backups, now, ret, written, writers, given>>

----------------------------------------------------------------------------
(* Bounds of the model and the values the inputs are drawn from.           *)

\* Slots run 0 .. MaxSlot, one every SlotStep minutes.
MaxSlot == 1

\* The tests space their slots 30 minutes apart (0, 30, 60, 90).
SlotStep == 30

\* The clock (in whole days) runs 0 .. MaxNow.
MaxNow == 2

\* Retention periods passed to cleanup_old_files run 0 .. MaxRetention.
MaxRetention == 1

\* rate_retention_days when the configuration does not set it.
DefaultRetentionDays == 7

Minutes == {k * SlotStep : k \in 0..MaxSlot}

Boundaries == {k * SlotStep : k \in 0..(MaxSlot + 1)}

\* Rates, as the tests use them: an original value and a changed one.
Rates == {10, 99}

\* Every rate table {minute: rate} over a set of minutes.
TablesOver(S) == UNION {[D -> Rates] : D \in SUBSET S}

Tables == TablesOver(Minutes)

FirstSlotTables == TablesOver({0})

EmptyTable == [m \in {} |-> 0]

\* datetime arguments: a calendar date and a time of day.
Today == [year |-> 2026, month |-> 11, day |-> 2, hour |-> 0]

TodayNoon == [year |-> 2026, month |-> 11, day |-> 2, hour |-> 12]

Yesterday == [year |-> 2026, month |-> 11, day |-> 1, hour |-> 0]

Dates == {Today, TodayNoon, Yesterday}

----------------------------------------------------------------------------
(* Text: a str is a sequence of characters; str() and int() as Python      *)
(* computes them on the integers and texts the model uses.                 *)

Digit == <<"0", "1", "2", "3", "4", "5", "6", "7", "8", "9">>

DigitChars == {Digit[i] : i \in 1..10}

DigitVal(c) == (CHOOSE i \in 1..10 : Digit[i] = c) - 1

RECURSIVE Decimal(_)
Decimal(n) ==
    IF n < 10 THEN <<Digit[n + 1]>>
    ELSE Decimal(n \div 10) \o <<Digit[(n % 10) + 1]>>

Unsigned(s) == IF Len(s) > 0 /\ s[1] \in {"-", "+"} THEN Tail(s) ELSE s

\* Whether int(s) returns: an optional sign and at least one digit.
IsIntText(s) ==
    /\ Len(Unsigned(s)) > 0
    /\ \A i \in 1..Len(Unsigned(s)) : Unsigned(s)[i] \in DigitChars

RECURSIVE DigitsValue(_)
DigitsValue(s) ==
    IF Len(s) = 0 THEN 0
    ELSE 10 * DigitsValue(SubSeq(s, 1, Len(s) - 1)) + DigitVal(s[Len(s)])

\* The texts of the minutes in use, computed once.
MinuteText == [n \in Minutes |-> Decimal(n)]

MinuteOfText == [s \in {MinuteText[n] : n \in Minutes} |-> DigitsValue(s)]

\* str(minute): the decimal text of an integer.
str(n) ==
    IF n \in DOMAIN MinuteText THEN MinuteText[n]
    ELSE IF n < 0 THEN <<"-">> \o Decimal(0 - n) ELSE Decimal(n)

\* int(k) on a text for which it does not raise ValueError.
int(s) ==
    IF s \in DOMAIN MinuteOfText THEN MinuteOfText[s]
    ELSE IF Len(s) > 0 /\ s[1] = "-" THEN 0 - DigitsValue(Unsigned(s))
    ELSE DigitsValue(Unsigned(s))

\* "%02d" and "%04d": zero-padded decimal.
RECURSIVE ZeroPad(_, _)
ZeroPad(s, width) == IF Len(s) >= width THEN s ELSE ZeroPad(<<"0">> \o s, width)

\* date.strftime("%Y_%m_%d")
strftime(date) ==
    ZeroPad(Decimal(date.year), 4) \o <<"_">> \o ZeroPad(Decimal(date.month), 2)
        \o <<"_">> \o ZeroPad(Decimal(date.day), 2)

----------------------------------------------------------------------------
(* RateStore: the path of a date's document.                               *)

save_dir == "predbat_save"

\* The paths of the dates in use, computed once.
FilepathOf ==
    [date \in Dates |-> <<save_dir, "rates_">> \o strftime(date) \o <<".json">>]

\* A slip: one file name for every date.
get_filepath_ignores_date(date) ==
    <<save_dir, "rates_", ".json">>

\* A slip: the format carries the hour ("%Y_%m_%d_%H"), so that two times of
\* one day name two files.
get_filepath_with_hour(date) ==
    <<save_dir, "rates_">> \o strftime(date) \o <<"_">>
        \o ZeroPad(Decimal(date.hour), 2) \o <<".json">>

\* os.path.join(self.save_dir, f"rates_{date_str}.json")
get_filepath(date) == FilepathOf[date]

\* The glob pattern cleanup_old_files passes: "rates_*.json".
RatesPattern == [prefix |-> "rates_", suffix |-> ".json"]

----------------------------------------------------------------------------
(* The Generic Store (PersistentStore): load, save and cleanup, as spec.md *)
(* sections 2, 6 and 7 describe them.  A file is a parsed JSON document,   *)
(* or unreadable, with a modification time in whole days.                  *)

None == [none |-> TRUE]

Some(data) == [none |-> FALSE, data |-> data]

File(data, mtime) == [readable |-> TRUE, data |-> data, mtime |-> mtime]

\* load(path): the parsed document, or None if absent or unreadable.
load(fs, filepath) ==
    IF filepath \in DOMAIN fs /\ fs[filepath].readable
    THEN Some(fs[filepath].data)
    ELSE None

\* save(path, data, backup): writes the document and returns True, keeping
\* a backup copy of the file it replaces; or fails (io_ok = FALSE), returns
\* False and leaves the previous document intact.
save(fs, bk, clock, filepath, data, backup, io_ok) ==
    IF io_ok
    THEN [ok |-> TRUE,
          files |-> [p \in DOMAIN fs \cup {filepath} |->
                        IF p = filepath THEN File(data, clock) ELSE fs[p]],
          backups |-> IF backup /\ filepath \in DOMAIN fs
                      THEN bk \cup {filepath} ELSE bk]
    ELSE [ok |-> FALSE, files |-> fs, backups |-> bk]

\* Whether a path lies in the directory and matches the glob prefix*suffix.
Matches(filepath, directory, pattern) ==
    /\ Len(filepath) >= 3
    /\ filepath[1] = directory
    /\ filepath[2] = pattern.prefix
    /\ filepath[Len(filepath)] = pattern.suffix

Age(fs, clock, filepath) == clock - fs[filepath].mtime

\* cleanup(directory, pattern, retention_days): deletes the matching files
\* older than the retention window and returns how many it deleted.  A file
\* aged exactly retention_days goes or stays by the store's age resolution
\* (at_limit).
cleanup(fs, clock, directory, pattern, retention_days, at_limit) ==
    LET old == {p \in DOMAIN fs :
                   /\ Matches(p, directory, pattern)
                   /\ \/ Age(fs, clock, p) > retention_days
                      \/ Age(fs, clock, p) = retention_days /\ at_limit}
    IN  [removed |-> Cardinality(old),
         files |-> [p \in DOMAIN fs \ old |-> fs[p]]]

----------------------------------------------------------------------------
(* RateStore.save_rates                                                    *)

\* A slip of copying a line: whatever section is asked for, rates_import is
\* read.
get_rates_import(data, name) ==
    IF "rates_import" \in DOMAIN data THEN data["rates_import"] ELSE EmptyTable

\* data.get(name, {})
get(data, name) == IF name \in DOMAIN data THEN data[name] ELSE EmptyTable

\* Whether {int(k): v for k, v in table.items()} raises ValueError.
RaisesValueError(table) ==
    \E k \in DOMAIN table : k \notin DOMAIN MinuteOfText /\ ~IsIntText(k)

\* {int(k): v for k, v in table.items()}
IntKeys(table) ==
    [m \in {int(k) : k \in DOMAIN table} |->
        table[CHOOSE k \in DOMAIN table : int(k) = m]]

\* A slip: a frozen slot takes the new value when the call supplies one.
new_import_prefers_new(existing_import, rate_import, all_minutes, freeze_before_minute) ==
    LET set == {minute \in all_minutes :
                   IF minute < freeze_before_minute
                   THEN minute \in DOMAIN existing_import
                        \/ minute \in DOMAIN rate_import
                   ELSE minute \in DOMAIN rate_import}
        value(minute) ==
            IF minute \in DOMAIN rate_import
            THEN rate_import[minute]
            ELSE existing_import[minute]
    IN  [k \in {str(minute) : minute \in set} |-> value(int(k))]

\* A slip: a frozen slot the document does not hold is left out (the elif
\* branch is missing).
new_import_drops_absent(existing_import, rate_import, all_minutes, freeze_before_minute) ==
    LET set == {minute \in all_minutes :
                   IF minute < freeze_before_minute
                   THEN minute \in DOMAIN existing_import
                   ELSE minute \in DOMAIN rate_import}
        value(minute) ==
            IF minute < freeze_before_minute
            THEN existing_import[minute]
            ELSE rate_import[minute]
    IN  [k \in {str(minute) : minute \in set} |-> value(int(k))]

\* A slip: the comparison is minute <= freeze_before_minute, so that the slot
\* at the boundary is frozen too.
new_import_inclusive(existing_import, rate_import, all_minutes, freeze_before_minute) ==
    LET set == {minute \in all_minutes :
                   IF minute <= freeze_before_minute
                   THEN minute \in DOMAIN existing_import
                            \/ minute \in DOMAIN rate_import
                   ELSE minute \in DOMAIN rate_import}
        value(minute) ==
            IF minute <= freeze_before_minute /\ minute \in DOMAIN existing_import
            THEN existing_import[minute]
            ELSE rate_import[minute]
    IN  [k \in {str(minute) : minute \in set} |-> value(int(k))]

\* The import half of the loop over sorted(all_minutes): a frozen slot keeps
\* the existing value if present, else takes the new value; a live slot takes
\* the new value; a slot with neither is left out.  Keys are str(minute).
new_import(existing_import, rate_import, all_minutes, freeze_before_minute) ==
    LET set == {minute \in all_minutes :
                   IF minute < freeze_before_minute
                   THEN minute \in DOMAIN existing_import
                        \/ minute \in DOMAIN rate_import
                   ELSE minute \in DOMAIN rate_import}
        value(minute) ==
            IF minute < freeze_before_minute /\ minute \in DOMAIN existing_import
            THEN existing_import[minute]
            ELSE rate_import[minute]
    IN  [k \in {str(minute) : minute \in set} |-> value(int(k))]

\* A slip: a live slot the call does not supply keeps the existing value.
new_export_carries_live(existing_export, rate_export, all_minutes, freeze_before_minute) ==
    LET set == {minute \in all_minutes :
                   minute \in DOMAIN existing_export
                   \/ minute \in DOMAIN rate_export}
        value(minute) ==
            IF minute \in DOMAIN existing_export
               /\ (minute < freeze_before_minute \/ minute \notin DOMAIN rate_export)
            THEN existing_export[minute]
            ELSE rate_export[minute]
    IN  [k \in {str(minute) : minute \in set} |-> value(int(k))]

\* A slip: a frozen slot of the export table takes the new value when the
\* call supplies one.
new_export_prefers_new(existing_export, rate_export, all_minutes, freeze_before_minute) ==
    LET set == {minute \in all_minutes :
                   IF minute < freeze_before_minute
                   THEN minute \in DOMAIN existing_export
                            \/ minute \in DOMAIN rate_export
                   ELSE minute \in DOMAIN rate_export}
        value(minute) ==
            IF minute \in DOMAIN rate_export
            THEN rate_export[minute]
            ELSE existing_export[minute]
    IN  [k \in {str(minute) : minute \in set} |-> value(int(k))]

\* The export half of the same loop.
new_export(existing_export, rate_export, all_minutes, freeze_before_minute) ==
    LET set == {minute \in all_minutes :
                   IF minute < freeze_before_minute
                   THEN minute \in DOMAIN existing_export
                        \/ minute \in DOMAIN rate_export
                   ELSE minute \in DOMAIN rate_export}
        value(minute) ==
            IF minute < freeze_before_minute /\ minute \in DOMAIN existing_export
            THEN existing_export[minute]
            ELSE rate_export[minute]
    IN  [k \in {str(minute) : minute \in set} |-> value(int(k))]

\* The document save_rates writes.
RateDocument(imp, exp, clock, freeze_before_minute) ==
    [rates_import |-> imp,
     rates_export |-> exp,
     last_updated |-> clock,
     frozen_before_minute |-> freeze_before_minute]

\* A slip: the document is read again at the moment of writing, so that what
\* was loaded earlier plays no part.
merge_and_save_reloads(fs, bk, clock, date, loaded, rate_import, rate_export, freeze_before_minute, io_ok) ==
    LET filepath == get_filepath(date)
        reloaded == load(fs, filepath)
        existing_data ==
            IF reloaded.none
            THEN [rates_import |-> EmptyTable, rates_export |-> EmptyTable]
            ELSE reloaded.data
        stored_import == get(existing_data, "rates_import")
        stored_export == get(existing_data, "rates_export")
        existing_import == IntKeys(stored_import)
        existing_export == IntKeys(stored_export)
        all_minutes == DOMAIN existing_import \cup DOMAIN rate_import
                           \cup DOMAIN existing_export \cup DOMAIN rate_export
        data == RateDocument(
                    new_import(existing_import, rate_import, all_minutes,
                               freeze_before_minute),
                    new_export(existing_export, rate_export, all_minutes,
                               freeze_before_minute),
                    clock, freeze_before_minute)
    IN  IF RaisesValueError(stored_import) \/ RaisesValueError(stored_export)
        THEN [raised |-> TRUE, ok |-> FALSE, saves |-> 0,
              files |-> fs, backups |-> bk]
        ELSE [raised |-> FALSE, saves |-> 1]
                 @@ save(fs, bk, clock, filepath, data, TRUE, io_ok)

\* The body of save_rates after its load (lines 83 to 123), on the result
\* `loaded` of that load: the merge of the loaded tables with the new ones,
\* and the write of the merged document over whatever the file holds by then.
merge_and_save(fs, bk, clock, date, loaded, rate_import, rate_export, freeze_before_minute, io_ok) ==
    LET filepath == get_filepath(date)
        existing_data ==
            IF loaded.none
            THEN [rates_import |-> EmptyTable, rates_export |-> EmptyTable]
            ELSE loaded.data
        stored_import == get(existing_data, "rates_import")
        stored_export == get(existing_data, "rates_export")
        existing_import == IntKeys(stored_import)
        existing_export == IntKeys(stored_export)
        all_minutes == DOMAIN existing_import \cup DOMAIN rate_import
                           \cup DOMAIN existing_export \cup DOMAIN rate_export
        data == RateDocument(
                    new_import(existing_import, rate_import, all_minutes,
                               freeze_before_minute),
                    new_export(existing_export, rate_export, all_minutes,
                               freeze_before_minute),
                    clock, freeze_before_minute)
    IN  IF RaisesValueError(stored_import) \/ RaisesValueError(stored_export)
        THEN [raised |-> TRUE, ok |-> FALSE, saves |-> 0,
              files |-> fs, backups |-> bk]
        ELSE [raised |-> FALSE, saves |-> 1]
                 @@ save(fs, bk, clock, filepath, data, TRUE, io_ok)

\* A slip: the slots are frozen below the boundary the document stores
\* rather than the boundary the call is given.
save_rates_stored_boundary(fs, bk, clock, date, rate_import, rate_export, freeze_before_minute, io_ok) ==
    LET filepath == get_filepath(date)
        loaded == load(fs, filepath)
        existing_data ==
            IF loaded.none
            THEN [rates_import |-> EmptyTable, rates_export |-> EmptyTable]
            ELSE loaded.data
        boundary ==
            IF "frozen_before_minute" \in DOMAIN existing_data
            THEN existing_data.frozen_before_minute
            ELSE freeze_before_minute
        stored_import == get(existing_data, "rates_import")
        stored_export == get(existing_data, "rates_export")
        existing_import == IntKeys(stored_import)
        existing_export == IntKeys(stored_export)
        all_minutes == DOMAIN existing_import \cup DOMAIN rate_import
                           \cup DOMAIN existing_export \cup DOMAIN rate_export
        data == RateDocument(
                    new_import(existing_import, rate_import, all_minutes, boundary),
                    new_export(existing_export, rate_export, all_minutes, boundary),
                    clock, freeze_before_minute)
    IN  IF RaisesValueError(stored_import) \/ RaisesValueError(stored_export)
        THEN [raised |-> TRUE, ok |-> FALSE, saves |-> 0,
              files |-> fs, backups |-> bk]
        ELSE [raised |-> FALSE, saves |-> 1]
                 @@ save(fs, bk, clock, filepath, data, TRUE, io_ok)

\* A slip: a failed save is tried once more.
save_rates_retries(fs, bk, clock, date, rate_import, rate_export, freeze_before_minute, io_ok) ==
    LET filepath == get_filepath(date)
        loaded == load(fs, filepath)
        existing_data ==
            IF loaded.none
            THEN [rates_import |-> EmptyTable, rates_export |-> EmptyTable]
            ELSE loaded.data
        stored_import == get(existing_data, "rates_import")
        stored_export == get(existing_data, "rates_export")
        existing_import == IntKeys(stored_import)
        existing_export == IntKeys(stored_export)
        all_minutes == DOMAIN existing_import \cup DOMAIN rate_import
                           \cup DOMAIN existing_export \cup DOMAIN rate_export
        data == RateDocument(
                    new_import(existing_import, rate_import, all_minutes,
                               freeze_before_minute),
                    new_export(existing_export, rate_export, all_minutes,
                               freeze_before_minute),
                    clock, freeze_before_minute)
    IN  IF RaisesValueError(stored_import) \/ RaisesValueError(stored_export)
        THEN [raised |-> TRUE, ok |-> FALSE, saves |-> 0,
              files |-> fs, backups |-> bk]
        ELSE IF io_ok
        THEN [raised |-> FALSE, saves |-> 1]
                 @@ save(fs, bk, clock, filepath, data, TRUE, io_ok)
        ELSE [raised |-> FALSE, saves |-> 2]
                 @@ save(fs, bk, clock, filepath, data, TRUE, TRUE)

\* A slip: a call that is handed two empty tables clears the date, removing
\* its document.
save_rates_clears_on_empty(fs, bk, clock, date, rate_import, rate_export, freeze_before_minute, io_ok) ==
    LET filepath == get_filepath(date)
        r == merge_and_save(fs, bk, clock, date, load(fs, filepath),
                            rate_import, rate_export, freeze_before_minute, io_ok)
    IN  IF r.ok /\ rate_import = EmptyTable /\ rate_export = EmptyTable
        THEN [r EXCEPT !.files = [p \in DOMAIN fs \ {filepath} |-> fs[p]]]
        ELSE r

\* A slip: the stored boundary never goes down; a call with a lower boundary
\* leaves the higher one in the document.
save_rates_keeps_highest_boundary(fs, bk, clock, date, rate_import, rate_export, freeze_before_minute, io_ok) ==
    LET filepath == get_filepath(date)
        loaded == load(fs, filepath)
        r == merge_and_save(fs, bk, clock, date, loaded,
                            rate_import, rate_export, freeze_before_minute, io_ok)
    IN  IF /\ r.ok
           /\ ~loaded.none
           /\ "frozen_before_minute" \in DOMAIN loaded.data
           /\ loaded.data.frozen_before_minute > freeze_before_minute
        THEN [r EXCEPT !.files[filepath].data.frozen_before_minute =
                           loaded.data.frozen_before_minute]
        ELSE r

\* save_rates(date, rate_import, rate_export, freeze_before_minute): what it
\* returns (ok) or raises, how many times it called the store's save, and
\* the files and backups it leaves: the store's save gives ok, files and
\* backups.  The document is loaded (line 82) and the rest of the body runs
\* on what was loaded.
save_rates(fs, bk, clock, date, rate_import, rate_export, freeze_before_minute, io_ok) ==
    merge_and_save(fs, bk, clock, date, load(fs, get_filepath(date)),
                   rate_import, rate_export, freeze_before_minute, io_ok)

----------------------------------------------------------------------------
(* RateStore.load_rates                                                    *)

\* A slip: the two tables are returned in the wrong order.
load_rates_swapped(fs, date) ==
    LET filepath == get_filepath(date)
        data == load(fs, filepath)
    IN  IF data.none
        THEN [raised |-> FALSE, none |-> TRUE,
              rate_import |-> EmptyTable, rate_export |-> EmptyTable]
        ELSE IF \/ RaisesValueError(get(data.data, "rates_import"))
                \/ RaisesValueError(get(data.data, "rates_export"))
        THEN [raised |-> TRUE, none |-> FALSE,
              rate_import |-> EmptyTable, rate_export |-> EmptyTable]
        ELSE [raised |-> FALSE, none |-> FALSE,
              rate_import |-> IntKeys(get(data.data, "rates_export")),
              rate_export |-> IntKeys(get(data.data, "rates_import"))]

\* A slip: a document that lacks a section is taken for no document.
load_rates_requires_sections(fs, date) ==
    LET filepath == get_filepath(date)
        data == load(fs, filepath)
    IN  IF \/ data.none
           \/ "rates_import" \notin DOMAIN data.data
           \/ "rates_export" \notin DOMAIN data.data
        THEN [raised |-> FALSE, none |-> TRUE,
              rate_import |-> EmptyTable, rate_export |-> EmptyTable]
        ELSE IF \/ RaisesValueError(get(data.data, "rates_import"))
                \/ RaisesValueError(get(data.data, "rates_export"))
        THEN [raised |-> TRUE, none |-> FALSE,
              rate_import |-> EmptyTable, rate_export |-> EmptyTable]
        ELSE [raised |-> FALSE, none |-> FALSE,
              rate_import |-> IntKeys(get(data.data, "rates_import")),
              rate_export |-> IntKeys(get(data.data, "rates_export"))]

\* load_rates(date): (rate_import, rate_export) with integer keys, or
\* (None, None) if the store loads no document; raises ValueError on a key
\* int() rejects.
load_rates(fs, date) ==
    LET filepath == get_filepath(date)
        data == load(fs, filepath)
    IN  IF data.none
        THEN [raised |-> FALSE, none |-> TRUE,
              rate_import |-> EmptyTable, rate_export |-> EmptyTable]
        ELSE IF \/ RaisesValueError(get(data.data, "rates_import"))
                \/ RaisesValueError(get(data.data, "rates_export"))
        THEN [raised |-> TRUE, none |-> FALSE,
              rate_import |-> EmptyTable, rate_export |-> EmptyTable]
        ELSE [raised |-> FALSE, none |-> FALSE,
              rate_import |-> IntKeys(get(data.data, "rates_import")),
              rate_export |-> IntKeys(get(data.data, "rates_export"))]

----------------------------------------------------------------------------
(* RateStore.cleanup_old_files and the constructor                         *)

\* A slip: one day more than asked is retained.
cleanup_old_files_keeps_a_day(fs, clock, retention_days, at_limit) ==
    cleanup(fs, clock, save_dir, RatesPattern, retention_days + 1, at_limit)

\* cleanup_old_files(retention_days)
cleanup_old_files(fs, clock, retention_days, at_limit) ==
    cleanup(fs, clock, save_dir, RatesPattern, retention_days, at_limit)

\* base.get_arg("rate_retention_days", 7)
get_arg(config) == IF config.set THEN config.value ELSE DefaultRetentionDays

Configs == {[set |-> FALSE, value |-> 0]}
               \cup {[set |-> TRUE, value |-> r] : r \in 0..MaxRetention}

----------------------------------------------------------------------------
(* The state machine.  ret is the last call: what it was given as date and *)
(* retention, what it returned, and how often it called the store's save.  *)
(* written is history: the calendar dates save_rates has succeeded for.    *)
(* given is history too, kept by SaveRatesTraced alone: the entries the    *)
(* successful calls of save_rates were given.  writers holds the calls of  *)
(* save_rates that two writers have under way, each between its load and   *)
(* its save.                                                               *)

CalendarDate(date) == [year |-> date.year, month |-> date.month, day |-> date.day]

Return(op, date) ==
    [op |-> op, date |-> date, raised |-> FALSE, ok |-> FALSE, saves |-> 0,
     none |-> FALSE, rate_import |-> EmptyTable, rate_export |-> EmptyTable,
     retention_days |-> 0, removed |-> 0]

NoFiles == [p \in {} |-> 0]

\* The two processes that share the save directory.
Writers == {"first", "second"}

\* A writer that has not called save_rates.  before counts the saves the
\* other writers had completed when this one loaded, rank those completed
\* when this one saved.
Idle ==
    [pc |-> "idle", loaded |-> load(NoFiles, get_filepath(Today)),
     rate_import |-> EmptyTable, rate_export |-> EmptyTable,
     freeze_before_minute |-> 0, before |-> 0, rank |-> 0, ok |-> FALSE]

Init ==
    /\ files = NoFiles
    /\ backups = {}
    /\ now = 0
    /\ ret = Return("__init__", Today)
    /\ written = {}
    /\ writers = [w \in Writers |-> Idle]
    /\ given = {}

\* One call of save_rates, from its load to its return.
SaveRatesCall(date, rate_import, rate_export, freeze_before_minute, io_ok) ==
    \E r \in {save_rates(files, backups, now, date, rate_import, rate_export,
                        freeze_before_minute, io_ok)} :
        /\ files' = r.files
        /\ backups' = r.backups
        /\ ret' = [Return("save_rates", date) EXCEPT
                       !.raised = r.raised, !.ok = r.ok, !.saves = r.saves]
        /\ written' = IF r.ok THEN written \cup {CalendarDate(date)} ELSE written
        /\ UNCHANGED now

SaveRates(date, rate_import, rate_export, freeze_before_minute, io_ok) ==
    /\ SaveRatesCall(date, rate_import, rate_export, freeze_before_minute, io_ok)
    /\ UNCHANGED <<writers, given>>

\* A slip: a load that finds no document creates an empty one.
LoadRates_creates(date) ==
    \E r \in {load_rates(files, date)} :
        /\ ret' = [Return("load_rates", date) EXCEPT
                       !.raised = r.raised, !.none = r.none,
                       !.rate_import = r.rate_import,
                       !.rate_export = r.rate_export]
        /\ files' = IF r.none /\ get_filepath(date) \notin DOMAIN files
                    THEN files @@ (get_filepath(date) :>
                             File(RateDocument(EmptyTable, EmptyTable, now, 0), now))
                    ELSE files
        /\ UNCHANGED <<backups, now, written, writers, given>>

LoadRates(date) ==
    \E r \in {load_rates(files, date)} :
        /\ ret' = [Return("load_rates", date) EXCEPT
                       !.raised = r.raised, !.none = r.none,
                       !.rate_import = r.rate_import,
                       !.rate_export = r.rate_export]
        /\ UNCHANGED <<files, backups, now, written, writers, given>>

CleanupOldFiles(retention_days, at_limit) ==
    \E r \in {cleanup_old_files(files, now, retention_days, at_limit)} :
        /\ files' = r.files
        /\ ret' = [Return("cleanup_old_files", Today) EXCEPT
                       !.retention_days = retention_days,
                       !.removed = r.removed]
        /\ UNCHANGED <<backups, now, written, writers, given>>

\* RateStore(base, save_dir): a new store object over the same directory.
RateStoreInit(config, at_limit) ==
    \E r \in {cleanup_old_files(files, now, get_arg(config), at_limit)} :
        /\ files' = r.files
        /\ ret' = [Return("__init__", Today) EXCEPT
                       !.retention_days = get_arg(config),
                       !.removed = r.removed]
        /\ UNCHANGED <<backups, now, written, writers, given>>

\* A day passes.
Tick ==
    /\ now < MaxNow
    /\ now' = now + 1
    /\ UNCHANGED <<files, backups, ret, written, writers, given>>

\* The tables and boundaries the calls of Spec are given: every import
\* table, every export table over the first slot, every boundary.
ImportInputs == Tables

ExportInputs == FirstSlotTables

\* One store, one date, no clock.
Next ==
    \/ \E rate_import \in ImportInputs, rate_export \in ExportInputs,
          freeze_before_minute \in Boundaries, io_ok \in BOOLEAN :
           SaveRates(Today, rate_import, rate_export, freeze_before_minute, io_ok)
    \/ LoadRates(Today)

Spec == Init /\ [][Next]_vars

\* The boundaries of the specifications with more than one date.
FirstBoundaries == {0, SlotStep}

\* The export tables of the specifications with more than one date.
ExportSample == {EmptyTable, [m \in {0} |-> 99]}

\* Several dates and times of day, tables over the first slot.
NextDates ==
    \/ \E date \in Dates, rate_import \in FirstSlotTables,
          rate_export \in ExportSample,
          freeze_before_minute \in FirstBoundaries, io_ok \in BOOLEAN :
           SaveRates(date, rate_import, rate_export, freeze_before_minute, io_ok)
    \/ \E date \in Dates : LoadRates(date)

SpecDates == Init /\ [][NextDates]_vars

\* Several dates, a clock, and retention cleanup.
NextCleanup ==
    \/ \E date \in {Today, Yesterday}, rate_import \in FirstSlotTables,
          io_ok \in BOOLEAN :
           SaveRates(date, rate_import, EmptyTable, SlotStep, io_ok)
    \/ \E date \in {Today, Yesterday} : LoadRates(date)
    \/ \E retention_days \in 0..MaxRetention, at_limit \in BOOLEAN :
           CleanupOldFiles(retention_days, at_limit)
    \/ \E config \in Configs, at_limit \in BOOLEAN :
           RateStoreInit(config, at_limit)
    \/ Tick

SpecCleanup == Init /\ [][NextCleanup]_vars

\* The saves the writers have completed.
Done == {w \in Writers : writers[w].pc = "done"}

\* A writer enters save_rates for today's date and loads the document
\* (line 82).
WriterLoad(w, rate_import, rate_export, freeze_before_minute) ==
    /\ writers[w].pc = "idle"
    /\ writers' = [writers EXCEPT ![w] =
           [pc |-> "loaded", loaded |-> load(files, get_filepath(Today)),
            rate_import |-> rate_import, rate_export |-> rate_export,
            freeze_before_minute |-> freeze_before_minute,
            before |-> Cardinality(Done), rank |-> 0, ok |-> FALSE]]
    /\ UNCHANGED <<files, backups, now, ret, written, given>>

\* The writer merges what it loaded and saves (lines 83 to 123).
WriterSave(w, io_ok) ==
    /\ writers[w].pc = "loaded"
    /\ \E r \in {merge_and_save(files, backups, now, Today, writers[w].loaded,
                                writers[w].rate_import, writers[w].rate_export,
                                writers[w].freeze_before_minute, io_ok)} :
           /\ files' = r.files
           /\ backups' = r.backups
           /\ ret' = [Return("save_rates", Today) EXCEPT
                          !.raised = r.raised, !.ok = r.ok, !.saves = r.saves]
           /\ written' = IF r.ok THEN written \cup {CalendarDate(Today)}
                                 ELSE written
           /\ writers' = [writers EXCEPT ![w].pc = "done",
                                         ![w].rank = Cardinality(Done),
                                         ![w].ok = r.ok]
    /\ UNCHANGED <<now, given>>

\* Two writers, one call of save_rates each on today's date, no lock.
NextRace ==
    \/ \E w \in Writers, rate_import \in FirstSlotTables,
          rate_export \in ExportSample, freeze_before_minute \in FirstBoundaries :
           WriterLoad(w, rate_import, rate_export, freeze_before_minute)
    \/ \E w \in Writers, io_ok \in BOOLEAN : WriterSave(w, io_ok)
    \/ LoadRates(Today)

SpecRace == Init /\ [][NextRace]_vars

\* The entries a call of save_rates for the date is given: the calendar
\* date, the table, the minute and the value.
Entries(date, rate_import, rate_export) ==
    {[date |-> CalendarDate(date), table |-> "rates_import",
      minute |-> m, value |-> rate_import[m]] : m \in DOMAIN rate_import}
        \cup {[date |-> CalendarDate(date), table |-> "rates_export",
               minute |-> m, value |-> rate_export[m]] : m \in DOMAIN rate_export}

\* save_rates, with the entries of a successful call added to the history.
SaveRatesTraced(date, rate_import, rate_export, freeze_before_minute, io_ok) ==
    /\ SaveRatesCall(date, rate_import, rate_export, freeze_before_minute, io_ok)
    /\ given' = IF ret'.ok
                THEN given \cup Entries(date, rate_import, rate_export)
                ELSE given
    /\ UNCHANGED writers

\* The tables over the first two slots.
TwoSlotTables == TablesOver({0, SlotStep})

\* From the empty store: saves for today over two slots, saves for
\* yesterday over the first, and the history of what they were given.
NextProvenance ==
    \/ \E rate_import \in TwoSlotTables, rate_export \in ExportSample,
          freeze_before_minute \in FirstBoundaries, io_ok \in BOOLEAN :
           SaveRatesTraced(Today, rate_import, rate_export,
                           freeze_before_minute, io_ok)
    \/ \E rate_import \in FirstSlotTables, rate_export \in ExportSample :
           SaveRatesTraced(Yesterday, rate_import, rate_export, SlotStep, TRUE)
    \/ \E date \in {Today, Yesterday} : LoadRates(date)

SpecProvenance == Init /\ [][NextProvenance]_vars

\* The merge on its own: the stored document is drawn from the documents
\* save_rates writes for every pair of tables, or there is none; the calls
\* that act are load_rates and save_rates whose write fails, which leave it.
MergeDocuments ==
    {save_rates(NoFiles, {}, 0, Today, rate_import, rate_export, 0, TRUE).files :
         rate_import \in Tables, rate_export \in Tables}

InitMerge ==
    /\ files \in {NoFiles} \cup MergeDocuments
    /\ backups = {}
    /\ now = 0
    /\ ret = Return("__init__", Today)
    /\ written = {}
    /\ writers = [w \in Writers |-> Idle]
    /\ given = {}

NextMerge ==
    \/ \E rate_import \in FirstSlotTables, rate_export \in ExportSample,
          freeze_before_minute \in FirstBoundaries :
           SaveRates(Today, rate_import, rate_export, freeze_before_minute, FALSE)
    \/ LoadRates(Today)

SpecMerge == InitMerge /\ [][NextMerge]_vars

\* The pairs of new tables the merge is checked on: every import table with
\* an export table over the first slot, and the other way round.
MergeInputs ==
    (Tables \X FirstSlotTables) \cup (FirstSlotTables \X Tables)

\* Documents that were not written by save_rates: a key that is no integer
\* text, a missing section (the test's hand-written files have no
\* frozen_before_minute either), an unreadable file.
ForeignFiles ==
    {File([rates_import |-> (<<"a", "b", "c">> :> 10),
           rates_export |-> (<<"0">> :> 10)], 0),
     File([rates_import |-> (<<"0">> :> 10),
           rates_export |-> (<<"3", "0", "x">> :> 99)], 0),
     File([rates_import |-> (<<"0">> :> 10), last_updated |-> 0], 0),
     File([rates_export |-> (<<"0">> :> 99), last_updated |-> 0], 0),
     File([rates_import |-> (<<"0">> :> 10), rates_export |-> (<<"0">> :> 99),
           last_updated |-> 0], 0),
     [readable |-> FALSE, data |-> EmptyTable, mtime |-> 0]}

InitForeign ==
    /\ files \in {(get_filepath(Today) :> f) : f \in ForeignFiles}
    /\ backups = {}
    /\ now = 0
    /\ ret = Return("__init__", Today)
    /\ written = {}
    /\ writers = [w \in Writers |-> Idle]
    /\ given = {}

SpecForeign == InitForeign /\ [][Next]_vars

----------------------------------------------------------------------------
(* Vocabulary of the properties.                                           *)

\* The document stored for a date, and whether there is one.
Exists(fs, date) == get_filepath(date) \in DOMAIN fs

Document(fs, date) == fs[get_filepath(date)].data

\* A successful save_rates on the current state, and what load_rates returns
\* right after it.
Saved(date, rate_import, rate_export, freeze_before_minute) ==
    save_rates(files, backups, now, date, rate_import, rate_export,
               freeze_before_minute, TRUE)

\* m is in the table with value v.
Maps(table, m, v) == m \in DOMAIN table /\ table[m] = v

\* Every entry of table is in result with the same value.
Within(table, result) == \A m \in DOMAIN table : Maps(result, m, table[m])

\* The step is a successful save_rates for the date.
SavedStep(date) ==
    /\ ret'.op = "save_rates"
    /\ ret'.ok
    /\ get_filepath(ret'.date) = get_filepath(date)

----------------------------------------------------------------------------
(* C1 .. C6 under Spec.                                                    *)

\* C1 (freeze invariant): when a successful save_rates with boundary b on a
\* date follows a successful save_rates with the same boundary b on that
\* date, every minute m < b that had a value after the first save has that
\* same value in what load_rates returns after the second, in the import
\* table and in the export table.
C1_FreezeInvariant ==
    [][(/\ SavedStep(Today)
        /\ Exists(files, Today)
        /\ Document(files, Today).frozen_before_minute
               = Document(files', Today).frozen_before_minute)
       => \A m \in Minutes :
              m < Document(files', Today).frozen_before_minute
              => /\ m \in DOMAIN load_rates(files, Today).rate_import
                    => Maps(load_rates(files', Today).rate_import, m,
                            load_rates(files, Today).rate_import[m])
                 /\ m \in DOMAIN load_rates(files, Today).rate_export
                    => Maps(load_rates(files', Today).rate_export, m,
                            load_rates(files, Today).rate_export[m])]_vars

\* Reached: a second successful save with boundary 30 has just returned, the
\* frozen slot 0 still reads 10 in both tables, and saving 99 for slot 0
\* with that boundary leads to this very state.
C1_Witness ==
    /\ ret.op = "save_rates" /\ ret.ok
    /\ get_filepath(Today) \in backups
    /\ Document(files, Today).frozen_before_minute = 30
    /\ Maps(load_rates(files, Today).rate_import, 0, 10)
    /\ Maps(load_rates(files, Today).rate_export, 0, 10)
    /\ Maps(load_rates(files, Today).rate_import, 30, 99)
    /\ Saved(Today, [m \in {0, 30} |-> 99], [m \in {0} |-> 99], 30).files = files

\* C2 (immutability on every subsequent write), as claimed: a minute below
\* the boundary of the last successful write keeps its value in every
\* successful save_rates to that date, whatever tables and boundary it is
\* given.
C2_ImmutableOnEveryWrite ==
    [][(SavedStep(Today) /\ Exists(files, Today))
       => \A m \in Minutes :
              m < Document(files, Today).frozen_before_minute
              => /\ m \in DOMAIN load_rates(files, Today).rate_import
                    => Maps(load_rates(files', Today).rate_import, m,
                            load_rates(files, Today).rate_import[m])
                 /\ m \in DOMAIN load_rates(files, Today).rate_export
                    => Maps(load_rates(files', Today).rate_export, m,
                            load_rates(files, Today).rate_export[m])]_vars

\* C3 (live-slot overwrite): from every state the store reaches, after a
\* successful save_rates the value of every minute m at or above the
\* boundary is the value that save supplied for m, and m is absent if the
\* save did not supply it, in each table.
C3_LiveSlotOverwrite ==
    \A rate_import \in ImportInputs, rate_export \in ExportInputs,
       b \in Boundaries :
        \A after \in {load_rates(Saved(Today, rate_import, rate_export, b).files,
                               Today)} :
            \A m \in Minutes :
                m >= b
                => /\ IF m \in DOMAIN rate_import
                      THEN Maps(after.rate_import, m, rate_import[m])
                      ELSE m \notin DOMAIN after.rate_import
                   /\ IF m \in DOMAIN rate_export
                      THEN Maps(after.rate_export, m, rate_export[m])
                      ELSE m \notin DOMAIN after.rate_export

\* Reached: earlier saves stored 10 for slot 0 in both tables and a value
\* for slot 30; a save with boundary 0 that supplies 99 for slot 0 and no
\* slot 30 replaces the one and drops the other.
C3_Witness ==
    /\ ret.op = "save_rates" /\ ret.ok
    /\ get_filepath(Today) \in backups
    /\ Maps(load_rates(files, Today).rate_import, 0, 10)
    /\ Maps(load_rates(files, Today).rate_export, 0, 10)
    /\ 30 \in DOMAIN load_rates(files, Today).rate_import
    /\ LET after == load_rates(
                        Saved(Today, [m \in {0} |-> 99], [m \in {0} |-> 99], 0).files,
                        Today)
       IN  /\ Maps(after.rate_import, 0, 99)
           /\ Maps(after.rate_export, 0, 99)
           /\ 30 \notin DOMAIN after.rate_import

\* C4 (round trip), as claimed: from every state the store reaches, a
\* successful save_rates(d, I, E, b) followed by load_rates(d) returns every
\* minute of I with I's value and every minute of E with E's value.
C4_RoundTrip ==
    \A rate_import \in ImportInputs, rate_export \in ExportInputs,
       b \in Boundaries :
        \A after \in {load_rates(Saved(Today, rate_import, rate_export, b).files,
                               Today)} :
            /\ Within(rate_import, after.rate_import)
            /\ Within(rate_export, after.rate_export)

\* The value the round trip returns for a minute the save supplied: the
\* value stored before if the minute is below the boundary and was stored,
\* the supplied value otherwise.
RoundTripValue(before, supplied, b, m) ==
    IF m < b /\ m \in DOMAIN before THEN before[m] ELSE supplied[m]

\* C4, amended: from every state the store reaches, a successful
\* save_rates(d, I, E, b) followed by load_rates(d) returns every minute of
\* I and of E; the value is the supplied one for a minute at or above b and
\* for a minute that was not stored before the save, and the value stored
\* before the save for a minute below b that was stored.
C4_RoundTripAmended ==
    \A rate_import \in ImportInputs, rate_export \in ExportInputs,
       b \in Boundaries :
        \A before \in {load_rates(files, Today)},
           after \in {load_rates(Saved(Today, rate_import, rate_export, b).files,
                               Today)} :
            /\ ~after.none
            /\ \A m \in DOMAIN rate_import :
                   Maps(after.rate_import, m,
                        RoundTripValue(before.rate_import, rate_import, b, m))
            /\ \A m \in DOMAIN rate_export :
                   Maps(after.rate_export, m,
                        RoundTripValue(before.rate_export, rate_export, b, m))

\* Reached: a save has stored 10 for slot 0 in both tables; saving 99 for
\* slots 0 and 30 with boundary 30 and loading returns 10 for slot 0 and 99
\* for slot 30.
C4_Witness ==
    /\ ret.op = "save_rates" /\ ret.ok
    /\ Maps(load_rates(files, Today).rate_import, 0, 10)
    /\ Maps(load_rates(files, Today).rate_export, 0, 10)
    /\ LET after == load_rates(
                        Saved(Today, [m \in {0, 30} |-> 99], [m \in {0} |-> 99], 30).files,
                        Today)
       IN  /\ Maps(after.rate_import, 0, 10)
           /\ Maps(after.rate_import, 30, 99)
           /\ Maps(after.rate_export, 0, 10)

\* C5 (first write wins for absent past slots): from every state the store
\* reaches, if minute m is absent from a table of the date's document (or
\* there is no document), m is below the boundary of a save_rates call and
\* the call supplies v for m in that table, then after the successful save
\* the table maps m to v.
C5_AbsentPastSlotAccepted ==
    \A rate_import \in ImportInputs, rate_export \in ExportInputs,
       b \in Boundaries :
        \A before \in {load_rates(files, Today)},
           after \in {load_rates(Saved(Today, rate_import, rate_export, b).files,
                               Today)} :
            \A m \in Minutes :
                m < b
                => /\ (m \notin DOMAIN before.rate_import /\ m \in DOMAIN rate_import)
                      => Maps(after.rate_import, m, rate_import[m])
                   /\ (m \notin DOMAIN before.rate_export /\ m \in DOMAIN rate_export)
                      => Maps(after.rate_export, m, rate_export[m])

\* Reached: a document written with boundary 30 holds slot 30 and no slot 0
\* in the import table and no slot 0 in the export table; a save with
\* boundary 60 that supplies 99 for slot 0 stores 99 there and keeps slot 30.
C5_Witness ==
    /\ ret.op = "save_rates" /\ ret.ok
    /\ Exists(files, Today)
    /\ Document(files, Today).frozen_before_minute = 30
    /\ 0 \notin DOMAIN load_rates(files, Today).rate_import
    /\ 0 \notin DOMAIN load_rates(files, Today).rate_export
    /\ Maps(load_rates(files, Today).rate_import, 30, 10)
    /\ LET after == load_rates(
                        Saved(Today, [m \in {0, 30} |-> 99], [m \in {0} |-> 99], 60).files,
                        Today)
       IN  /\ Maps(after.rate_import, 0, 99)
           /\ Maps(after.rate_export, 0, 99)
           /\ Maps(after.rate_import, 30, 10)

\* C6 (idempotence): from every state the store reaches, two successful
\* save_rates(d, I, E, b) in a row leave load_rates(d) returning the same
\* pair of tables as the first of them alone.
C6_Idempotent ==
    \A rate_import \in ImportInputs, rate_export \in ExportInputs,
       b \in Boundaries :
        \A once \in {Saved(Today, rate_import, rate_export, b)} :
            \A twice \in {save_rates(once.files, once.backups, now, Today,
                                     rate_import, rate_export, b, TRUE)} :
                /\ once.ok /\ twice.ok
                /\ load_rates(twice.files, Today) = load_rates(once.files, Today)

\* Reached: the document holds 10 for slots 0 and 30; saving 99 for both
\* with boundary 30 changes slot 30 alone, and saving the same again changes
\* nothing more.
C6_Witness ==
    /\ ret.op = "save_rates" /\ ret.ok
    /\ Maps(load_rates(files, Today).rate_import, 0, 10)
    /\ Maps(load_rates(files, Today).rate_import, 30, 10)
    /\ LET once == Saved(Today, [m \in {0, 30} |-> 99], [m \in {0} |-> 99], 30)
           twice == save_rates(once.files, once.backups, now, Today,
                               [m \in {0, 30} |-> 99], [m \in {0} |-> 99], 30, TRUE)
       IN  /\ load_rates(once.files, Today) # load_rates(files, Today)
           /\ Maps(load_rates(once.files, Today).rate_import, 0, 10)
           /\ load_rates(twice.files, Today) = load_rates(once.files, Today)

----------------------------------------------------------------------------
(* C7 .. C10.                                                               *)

\* C7 (exception-free failures), as claimed, under SpecForeign: whatever
\* document the store's load returns and whatever the store's save does,
\* save_rates and load_rates do not raise; they report a failure by False or
\* by (None, None).
C7_ExceptionFree ==
    ret.op \in {"save_rates", "load_rates"} => ~ret.raised

\* C8 (a failed save leaves the document intact): from every state the store
\* reaches, when the store's save fails, save_rates returns False after one
\* call of the store's save, the files are as before the call, and
\* load_rates returns what it returned before the call.
C8_FailedSaveLeavesDocument ==
    \A rate_import \in ImportInputs, rate_export \in ExportInputs,
       b \in Boundaries :
        \A failed \in {save_rates(files, backups, now, Today,
                                  rate_import, rate_export, b, FALSE)} :
            /\ ~failed.ok
            /\ ~failed.raised
            /\ failed.saves = 1
            /\ failed.files = files
            /\ load_rates(failed.files, Today) = load_rates(files, Today)

\* Reached: a save_rates on an existing document with frozen slot 0 has just
\* returned False after one call of the store's save, and the document still
\* holds its tables and boundary.
C8_Witness ==
    /\ ret.op = "save_rates" /\ ~ret.ok /\ ~ret.raised /\ ret.saves = 1
    /\ Exists(files, Today)
    /\ Document(files, Today).frozen_before_minute = 30
    /\ Maps(load_rates(files, Today).rate_import, 0, 10)
    /\ Maps(load_rates(files, Today).rate_import, 30, 99)
    /\ Maps(load_rates(files, Today).rate_export, 0, 99)

\* C9 (no-data sentinel), under SpecDates: load_rates(d) returns
\* (None, None) for every date no save_rates has succeeded for, whatever was
\* saved for other dates, and a pair of tables for a date whose document
\* exists; the last load_rates call returned accordingly.
C9_NoDataSentinel ==
    /\ \A date \in Dates :
           /\ CalendarDate(date) \notin written
              => load_rates(files, date).none /\ ~load_rates(files, date).raised
           /\ Exists(files, date)
              => ~load_rates(files, date).none /\ ~load_rates(files, date).raised
    /\ ret.op = "load_rates"
       => /\ ~ret.raised
          /\ ret.none = (CalendarDate(ret.date) \notin written)

\* Reached: load_rates for yesterday, never saved, has just returned
\* (None, None) while today's document exists and loads as a pair.
C9_Witness ==
    /\ ret.op = "load_rates" /\ ret.date = Yesterday /\ ret.none
    /\ CalendarDate(Yesterday) \notin written
    /\ CalendarDate(Today) \in written
    /\ Exists(files, Today)
    /\ Maps(load_rates(files, TodayNoon).rate_import, 0, 10)

\* C10 (retention monotonicity), under SpecCleanup: when
\* cleanup_old_files(r) returns, no rate document left in the directory is
\* older than r days, every rate document younger than r days is still
\* there unchanged, nothing was added, and the count returned is the number
\* of documents removed.
C10_RetentionMonotonic ==
    [][\A retention_days \in 0..MaxRetention \cup {DefaultRetentionDays} :
           (\/ \E at_limit \in BOOLEAN :
                   CleanupOldFiles(retention_days, at_limit)
            \/ \E config \in Configs, at_limit \in BOOLEAN :
                   /\ get_arg(config) = retention_days
                   /\ RateStoreInit(config, at_limit))
           => /\ \A p \in DOMAIN files' :
                     Age(files', now', p) <= retention_days
              /\ \A p \in DOMAIN files :
                     Age(files, now, p) < retention_days
                     => p \in DOMAIN files' /\ files'[p] = files[p]
              /\ DOMAIN files' \subseteq DOMAIN files
              /\ ret'.removed = Cardinality(DOMAIN files \ DOMAIN files')]_vars

\* Reached: cleanup_old_files(1) has just removed one document, aged two
\* days, and left the other, aged less than a day.
C10_Witness ==
    /\ ret.op = "cleanup_old_files" /\ ret.retention_days = 1 /\ ret.removed = 1
    /\ now = 2
    /\ written = {CalendarDate(Today), CalendarDate(Yesterday)}
    /\ DOMAIN files = {get_filepath(Today)}
    /\ Age(files, now, get_filepath(Today)) = 0

----------------------------------------------------------------------------
(* C11 under SpecCleanup.                                                  *)

\* C11 (document lifecycle): the document of a date comes into being only in
\* a step that is a successful save_rates for that date, and ceases to be
\* only in a step of retention cleanup (cleanup_old_files, or the cleanup a
\* new store object runs); so no save_rates, successful or failed, with empty
\* tables or not, and no load_rates makes a document that is there absent.
C11_Lifecycle ==
    [][\A date \in {Today, Yesterday} :
           /\ (~Exists(files, date) /\ Exists(files', date))
                  => SavedStep(date)
           /\ (Exists(files, date) /\ ~Exists(files', date))
                  => ret'.op \in {"cleanup_old_files", "__init__"}
           /\ (Exists(files, date) /\ ret'.op \in {"save_rates", "load_rates"})
                  => Exists(files', date)]_vars

\* Reached: a date was saved, its document aged and was removed by cleanup,
\* and a save_rates with empty tables has since made it anew while the
\* other date's document stayed.
C11_Witness ==
    /\ ret.op = "save_rates" /\ ret.ok /\ ret.date = Today
    /\ now = 2
    /\ Exists(files, Today) /\ Age(files, now, get_filepath(Today)) = 0
    /\ Document(files, Today).rates_import = EmptyTable
    /\ Exists(files, Yesterday) /\ Age(files, now, get_filepath(Yesterday)) = 1
    /\ get_filepath(Today) \in backups

----------------------------------------------------------------------------
(* C12 under SpecDates.                                                    *)

\* C12 (per-date isolation): the document a call addresses is determined by
\* the calendar date alone, the time of day playing no part: after a
\* save_rates for a date, successful or failed, every date of the same
\* calendar day names the same file and loads the same tables, and every
\* file but that one is as it was, so that the documents of the other
\* calendar dates, and what load_rates returns for them, are unchanged.
C12_PerDateIsolation ==
    [][\A date \in Dates :
           (ret'.op = "save_rates" /\ ret'.date = date)
           => /\ \A p \in (DOMAIN files \cup DOMAIN files') \ {get_filepath(date)} :
                     p \in DOMAIN files /\ p \in DOMAIN files' /\ files'[p] = files[p]
              /\ \A other \in Dates :
                     IF CalendarDate(other) = CalendarDate(date)
                     THEN /\ get_filepath(other) = get_filepath(date)
                          /\ load_rates(files', other) = load_rates(files', date)
                     ELSE /\ get_filepath(other) # get_filepath(date)
                          /\ Exists(files', other) <=> Exists(files, other)
                          /\ Exists(files, other)
                                 => Document(files', other) = Document(files, other)
                          /\ load_rates(files', other) = load_rates(files, other)]_vars

\* Reached: a save_rates at noon has just replaced the value an earlier save
\* of that day stored at midnight, while the document of the day before
\* holds another value still.
C12_Witness ==
    /\ ret.op = "save_rates" /\ ret.ok /\ ret.date = TodayNoon
    /\ get_filepath(Today) \in backups
    /\ load_rates(files, Today).rate_import = [m \in {0} |-> 10]
    /\ Exists(files, Yesterday)
    /\ load_rates(files, Yesterday).rate_import = [m \in {0} |-> 99]
    /\ load_rates(files, Yesterday).rate_export = EmptyTable
    /\ load_rates(files, Today).rate_export = [m \in {0} |-> 99]

----------------------------------------------------------------------------
(* C13 under SpecDates.                                                    *)

\* C13 (stored freeze boundary): whatever was saved before, a successful
\* save_rates(d, I, E, b) leaves b as the frozen_before_minute of d's
\* document, be b higher or lower than the boundary stored before, and a
\* failed one leaves the stored boundary as it was; so the stored boundary
\* is always that of the most recent successful save_rates for the date.
C13_StoredBoundary ==
    \A date \in {Today, Yesterday}, rate_import \in FirstSlotTables,
       rate_export \in ExportSample, b \in Boundaries :
        \A saved \in {save_rates(files, backups, now, date, rate_import,
                                 rate_export, b, TRUE)},
           failed \in {save_rates(files, backups, now, date, rate_import,
                                  rate_export, b, FALSE)} :
            /\ saved.ok
            /\ Document(saved.files, date).frozen_before_minute = b
            /\ ~failed.ok
            /\ Exists(failed.files, date) <=> Exists(files, date)
            /\ Exists(files, date)
                   => Document(failed.files, date).frozen_before_minute
                          = Document(files, date).frozen_before_minute

\* Reached: the document stores the boundary of the last successful save,
\* SlotStep, with minute 0 frozen below it; a failed save with boundary 0
\* has just left it so, and a successful one with boundary 0 stores 0.
C13_Witness ==
    /\ ret.op = "save_rates" /\ ~ret.ok /\ ret.date = Today
    /\ Exists(files, Today)
    /\ Document(files, Today).frozen_before_minute = SlotStep
    /\ get_filepath(Today) \in backups
    /\ load_rates(files, Today).rate_import = [m \in {0} |-> 10]
    /\ Document(Saved(Today, [m \in {0} |-> 99], EmptyTable, 0).files, Today)
           .frozen_before_minute = 0

----------------------------------------------------------------------------
(* C14 under SpecForeign.                                                  *)

\* The store with both sections written out in the date's document: a
\* section the document lacks is added as an empty table.
Completed(fs, date) ==
    [fs EXCEPT ![get_filepath(date)].data =
         @ @@ [rates_import |-> EmptyTable, rates_export |-> EmptyTable]]

\* The stored table, text-keyed, holds the entries of the loaded one.
SameEntries(stored, table) ==
    /\ \A k \in DOMAIN stored : Maps(table, int(k), stored[k])
    /\ \A m \in DOMAIN table : str(m) \in DOMAIN stored

\* C14 (partial document tolerance): when the stored document is readable
\* and lacks rates_import or rates_export, load_rates returns tables and not
\* (None, None): the empty table for the missing section and the stored one
\* for the present section; and save_rates writes what it would write over
\* the same document with the missing section stored as an empty table.
C14_PartialDocument ==
    (/\ Exists(files, Today)
     /\ files[get_filepath(Today)].readable
     /\ \/ "rates_import" \notin DOMAIN Document(files, Today)
        \/ "rates_export" \notin DOMAIN Document(files, Today))
    => LET data == Document(files, Today)
           loaded == load_rates(files, Today)
       IN  /\ ~loaded.raised /\ ~loaded.none
           /\ IF "rates_import" \in DOMAIN data
              THEN SameEntries(data.rates_import, loaded.rate_import)
              ELSE loaded.rate_import = EmptyTable
           /\ IF "rates_export" \in DOMAIN data
              THEN SameEntries(data.rates_export, loaded.rate_export)
              ELSE loaded.rate_export = EmptyTable
           /\ \A rate_import \in ImportInputs, rate_export \in ExportInputs,
                 b \in Boundaries, io_ok \in BOOLEAN :
                  LET saved == save_rates(files, backups, now, Today,
                                          rate_import, rate_export, b, io_ok)
                      whole == save_rates(Completed(files, Today), backups, now,
                                          Today, rate_import, rate_export, b, io_ok)
                  IN  /\ ~saved.raised
                      /\ saved.ok = io_ok
                      /\ io_ok => saved.files = whole.files

\* Reached: the document has no rates_export section, and load_rates has
\* just returned its import table and an empty export table.
C14_Witness ==
    /\ ret.op = "load_rates" /\ ~ret.none /\ ~ret.raised
    /\ Exists(files, Today)
    /\ "rates_export" \notin DOMAIN Document(files, Today)
    /\ ret.rate_import = [m \in {0} |-> 10]
    /\ ret.rate_export = EmptyTable
    /\ load_rates(Saved(Today, EmptyTable, [m \in {0} |-> 99], SlotStep).files,
                  Today).rate_import = [m \in {0} |-> 10]

----------------------------------------------------------------------------
(* C15 under SpecMerge.                                                    *)

\* The reference merge of one table: below the boundary the existing entries
\* stay, and a new entry is taken where there is no existing one; at or
\* above the boundary the new entries alone are taken.
ReferenceMerge(existing, new, b) ==
    LET kept == {m \in DOMAIN existing : m < b}
        taken == {m \in DOMAIN new : m >= b \/ m \notin DOMAIN existing}
    IN  [m \in kept \cup taken |-> IF m \in kept THEN existing[m] ELSE new[m]]

\* C15 (merge against the reference rule): for every stored pair of tables,
\* every pair of new tables and every boundary b, the import table a
\* successful save_rates writes is the reference merge of the stored and the
\* new import table, and the export table that of the export tables, each
\* whatever the other two tables are; its minutes are among those of the two
\* tables merged, its values are rates, and the document's keys are the
\* texts of those minutes.
C15_ReferenceMerge ==
    \A inputs \in MergeInputs, b \in Boundaries :
        \A before \in {load_rates(files, Today)},
           saved \in {Saved(Today, inputs[1], inputs[2], b)} :
            \A after \in {load_rates(saved.files, Today)} :
                /\ saved.ok /\ ~after.none /\ ~after.raised
                /\ after.rate_import
                       = ReferenceMerge(before.rate_import, inputs[1], b)
                /\ after.rate_export
                       = ReferenceMerge(before.rate_export, inputs[2], b)
                /\ DOMAIN after.rate_import
                       \subseteq DOMAIN before.rate_import \cup DOMAIN inputs[1]
                /\ DOMAIN after.rate_export
                       \subseteq DOMAIN before.rate_export \cup DOMAIN inputs[2]
                /\ \A m \in DOMAIN after.rate_import :
                       after.rate_import[m] \in Rates
                /\ \A m \in DOMAIN after.rate_export :
                       after.rate_export[m] \in Rates
                /\ SameEntries(Document(saved.files, Today).rates_import,
                               after.rate_import)
                /\ SameEntries(Document(saved.files, Today).rates_export,
                               after.rate_export)

\* Reached: both stored tables hold both slots; a save_rates with boundary
\* SlotStep that supplies other values for both slots of the import table
\* and for the second slot of the export table keeps the first slot of each
\* and takes the new values of the second.
C15_Witness ==
    /\ ret.op = "load_rates"
    /\ ret.rate_import = [m \in {0, SlotStep} |-> 10]
    /\ ret.rate_export = [m \in {0, SlotStep} |-> 99]
    /\ LET after == load_rates(Saved(Today, [m \in {0, SlotStep} |-> 99],
                                     [m \in {SlotStep} |-> 10], SlotStep).files,
                               Today)
       IN  /\ after.rate_import = (0 :> 10) @@ (SlotStep :> 99)
           /\ after.rate_export = (0 :> 99) @@ (SlotStep :> 10)

----------------------------------------------------------------------------
(* C16 under SpecRace.                                                     *)

\* The store after the writer's call alone, from the empty store.
Alone(w) ==
    save_rates(NoFiles, {}, now, Today, writers[w].rate_import,
               writers[w].rate_export, writers[w].freeze_before_minute, TRUE)

\* The store after the calls of w and then of u, one after the other.
Serial(w, u) ==
    save_rates(Alone(w).files, Alone(w).backups, now, Today,
               writers[u].rate_import, writers[u].rate_export,
               writers[u].freeze_before_minute, TRUE)

\* Both writers loaded before either saved, and both saves succeeded.
Raced ==
    \A w \in Writers :
        writers[w].pc = "done" /\ writers[w].ok /\ writers[w].before = 0

\* C16 (lost update under concurrent writers): when both writers have saved
\* with success, and the one who saved last had loaded before the other
\* saved, the document is the one the last writer alone would have written
\* on the empty store, the other writer's save having left no trace; when
\* the last writer loaded after the other's save, the document is the one
\* the two calls write one after the other.
C16_LostUpdate ==
    \A w \in Writers, u \in Writers :
        (/\ w # u
         /\ writers[w].pc = "done" /\ writers[w].ok /\ writers[w].rank = 0
         /\ writers[u].pc = "done" /\ writers[u].ok /\ writers[u].rank = 1)
        => /\ Exists(files, Today)
           /\ IF writers[u].before = 0
              THEN Document(files, Today) = Document(Alone(u).files, Today)
              ELSE Document(files, Today) = Document(Serial(w, u).files, Today)

\* Reached: both loaded the empty store before either saved; the first
\* stored 10 for minute 0 of the import table, below its boundary, the
\* second then saved an export entry only, with the same boundary; the
\* document has lost minute 0 of the import table, which either serial
\* order of the two calls keeps, and so differs from both.
C16_Witness ==
    /\ Raced
    /\ writers["first"].rank = 0 /\ writers["second"].rank = 1
    /\ writers["first"].rate_import = [m \in {0} |-> 10]
    /\ writers["first"].freeze_before_minute = SlotStep
    /\ writers["second"].rate_import = EmptyTable
    /\ writers["second"].rate_export = [m \in {0} |-> 99]
    /\ writers["second"].freeze_before_minute = SlotStep
    /\ load_rates(files, Today).rate_import = EmptyTable
    /\ load_rates(Serial("first", "second").files, Today).rate_import
           = [m \in {0} |-> 10]
    /\ load_rates(Serial("second", "first").files, Today).rate_import
           = [m \in {0} |-> 10]
    /\ Document(files, Today) # Document(Serial("first", "second").files, Today)
    /\ Document(files, Today) # Document(Serial("second", "first").files, Today)

----------------------------------------------------------------------------
(* C17 under Spec.                                                         *)

\* Every entry of the stored table whose minute is below b is in the table
\* stored after, with the same value.
Permanent(stored, after, b) ==
    \A k \in DOMAIN stored :
        int(k) < b => k \in DOMAIN after /\ after[k] = stored[k]

\* C17 (permanence under boundaries that stay above the slot): in every
\* save_rates step on a date that has a document, failed or successful with
\* boundary b, every minute below b that the import or the export table
\* held before the step is held after it with the same value, whatever
\* tables the call supplied; a failed call keeps every minute.  Step by
\* step, a minute stays with its value over any sequence of save_rates calls
\* whose boundaries are all above it.
C17_Permanence ==
    [][(ret'.op = "save_rates" /\ Exists(files, Today))
       => /\ Exists(files', Today)
          /\ \A b \in {IF ret'.ok
                       THEN Document(files', Today).frozen_before_minute
                       ELSE (MaxSlot + 1) * SlotStep} :
                 /\ Permanent(Document(files, Today).rates_import,
                              Document(files', Today).rates_import, b)
                 /\ Permanent(Document(files, Today).rates_export,
                              Document(files', Today).rates_export, b)]_vars

\* Reached: after at least two successful saves the document stores the
\* highest boundary, 10 for minute 0 of the import table and 99 for minute 0
\* of the export table, and a further save with boundary SlotStep that
\* supplies the opposite values leaves both as they are.
C17_Witness ==
    /\ ret.op = "save_rates" /\ ret.ok
    /\ get_filepath(Today) \in backups
    /\ Document(files, Today).frozen_before_minute = (MaxSlot + 1) * SlotStep
    /\ Maps(load_rates(files, Today).rate_import, 0, 10)
    /\ Maps(load_rates(files, Today).rate_export, 0, 99)
    /\ LET after == load_rates(Saved(Today, [m \in {0} |-> 99],
                                     [m \in {0} |-> 10], SlotStep).files, Today)
       IN  Maps(after.rate_import, 0, 10) /\ Maps(after.rate_export, 0, 99)

----------------------------------------------------------------------------
(* C18 under SpecDates.                                                    *)

\* C18 (value captured when the boundary passes a slot): when the document
\* of a date stores a boundary at or below minute m and holds m with value
\* v, so that the last successful save stored m as a live slot, a successful
\* save_rates with a boundary above m that supplies another value for m
\* leaves v stored for m, in the import table and in the export table: the
\* value supplied by the first write that treats m as frozen is discarded.
C18_CapturedValue ==
    \A date \in {Today, Yesterday}, m \in Minutes, b \in Boundaries,
       rate_import \in FirstSlotTables, rate_export \in FirstSlotTables :
        (/\ Exists(files, date)
         /\ Document(files, date).frozen_before_minute <= m
         /\ b > m)
        => \A before \in {load_rates(files, date)},
              after \in {load_rates(save_rates(files, backups, now, date,
                                               rate_import, rate_export, b,
                                               TRUE).files, date)} :
               /\ (/\ m \in DOMAIN before.rate_import
                   /\ m \in DOMAIN rate_import
                   /\ rate_import[m] # before.rate_import[m])
                  => Maps(after.rate_import, m, before.rate_import[m])
               /\ (/\ m \in DOMAIN before.rate_export
                   /\ m \in DOMAIN rate_export
                   /\ rate_export[m] # before.rate_export[m])
                  => Maps(after.rate_export, m, before.rate_export[m])

\* Reached: a save with boundary 0 has just stored 10 for minute 0, a live
\* slot; the next save, with boundary SlotStep and 99 for minute 0, stores
\* the boundary SlotStep and leaves 10.
C18_Witness ==
    /\ ret.op = "save_rates" /\ ret.ok /\ ret.date = Yesterday
    /\ Document(files, Yesterday).frozen_before_minute = 0
    /\ Maps(load_rates(files, Yesterday).rate_import, 0, 10)
    /\ LET next == Saved(Yesterday, [m \in {0} |-> 99], EmptyTable, SlotStep)
       IN  /\ next.ok
           /\ Document(next.files, Yesterday).frozen_before_minute = SlotStep
           /\ Maps(load_rates(next.files, Yesterday).rate_import, 0, 10)

----------------------------------------------------------------------------
(* C19 under SpecProvenance.                                               *)

\* Every entry of the table stored under the name in the date's document is
\* in the history for that date, that table, that minute and that value.
Provenance(date, name) ==
    \A k \in DOMAIN Document(files, date)[name] :
        [date |-> CalendarDate(date), table |-> name, minute |-> int(k),
         value |-> Document(files, date)[name][k]] \in given

\* C19 (provenance of stored values): from the empty store and after any
\* sequence of save_rates calls, a date has a document only if a save_rates
\* for it has succeeded, and every entry m -> v of the import table of its
\* document was given as rate_import[m] = v, and every entry of its export
\* table as rate_export[m] = v, to a successful save_rates for that calendar
\* date: nothing is invented, moved to another minute, or copied between
\* the two tables or between dates.
C19_Provenance ==
    \A date \in {Today, Yesterday} :
        Exists(files, date)
        => /\ CalendarDate(date) \in written
           /\ Provenance(date, "rates_import")
           /\ Provenance(date, "rates_export")

\* Reached: today's document holds 10 and 99 for the two minutes of the
\* import table and 99 in the export table, yesterday's holds 99 for minute
\* 0 alone; the history has, besides these, a 99 given for today's minute 0
\* that was discarded, and nothing of the failed save that came last.
C19_Witness ==
    /\ ret.op = "save_rates" /\ ~ret.ok /\ ret.date = Today
    /\ load_rates(files, Today).rate_import = (0 :> 10) @@ (SlotStep :> 99)
    /\ load_rates(files, Today).rate_export = [m \in {0} |-> 99]
    /\ load_rates(files, Yesterday).rate_import = [m \in {0} |-> 99]
    /\ load_rates(files, Yesterday).rate_export = EmptyTable
    /\ given = Entries(Today, (0 :> 10) @@ (SlotStep :> 99), [m \in {0} |-> 99])
                   \cup Entries(Today, [m \in {0} |-> 99], EmptyTable)
                   \cup Entries(Yesterday, [m \in {0} |-> 99], EmptyTable)

----------------------------------------------------------------------------
(* C20 under SpecDates.                                                    *)

\* C20 (load_rates is read-only and repeatable): a load_rates step leaves
\* every file as it was, tables, boundary and modification time, creates no
\* document for a date that has none, and leaves the backups; and a second
\* load_rates of the same date right after it returns what it returned.
C20_LoadReadOnly ==
    [][\A date \in Dates :
           (ret'.op = "load_rates" /\ ret'.date = date)
           => /\ files' = files
              /\ backups' = backups
              /\ \A other \in Dates :
                     /\ Exists(files', other) <=> Exists(files, other)
                     /\ Exists(files, other)
                            => Document(files', other) = Document(files, other)
              /\ \A again \in {load_rates(files', date)} :
                     /\ again.raised = ret'.raised
                     /\ again.none = ret'.none
                     /\ again.rate_import = ret'.rate_import
                     /\ again.rate_export = ret'.rate_export]_vars

\* Reached: load_rates has just returned (None, None) for yesterday, which
\* has no document still, while today's document stands with its tables and
\* its boundary.
C20_Witness ==
    /\ ret.op = "load_rates" /\ ret.date = Yesterday /\ ret.none
    /\ ~Exists(files, Yesterday)
    /\ Exists(files, Today)
    /\ Document(files, Today).frozen_before_minute = SlotStep
    /\ load_rates(files, TodayNoon).rate_import = [m \in {0} |-> 10]
    /\ load_rates(files, TodayNoon).rate_export = [m \in {0} |-> 99]

====
